---------------------------- MODULE Spec2Model ----------------------------
(***************************************************************************)
(* Model of the ICD-10-CM term pipeline (src/icd10cm_pipeline.py) and its  *)
(* enrichment rule engine (src/icd10cm_rules.py).                          *)
(*                                                                         *)
(* A Python str is modelled as a sequence of characters, each character a  *)
(* one-element string: "abc" is <<"a","b","c">>.  Characters outside     *)
(* ASCII are written as tokens: "NBSP" is U+00A0 (no-break space) and      *)
(* "SUP2" is U+00B2 (superscript two), "ENDASH" is U+2013, "EMDASH" is     *)
(* U+2014 and "RSQUO" is U+2019.  "\\" is the backslash.  "NEL" is U+0085, *)
(* and a whitespace character beyond U+00FF is the token of its code       *)
(* point, such as "U+2003".  ASCII control characters are themselves.      *)
(***************************************************************************)
EXTENDS Integers, Sequences, FiniteSets, TLC

VARIABLES
    pc,            \* which operation has just completed
    raw_term,      \* canonicalize: the input string
    canon1,        \* canonicalize(raw_term)
    canon2,        \* canonicalize(canonicalize(raw_term))
    cur_line,      \* parse_line: the input line
    cur_row,       \* parse_line: its outcome (a row, None, or an exception)
    cur_term,      \* enrich: the input term
    cur_cap,       \* enrich: max_variants
    cur_rules,     \* enrich: the rule table
    cur_variants,  \* enrich: the returned list of (variant, rule_id)
    with_stats,    \* enrich: whether a stats accumulator is supplied
    enrichment_stats,  \* the EnrichmentStats accumulator
    stats_before,  \* the accumulator as it was before the last operation
    enrich_calls,  \* history: the enrich calls made so far, in order
    options,       \* emit_rows: the keyword options (main: the arguments)
    emitted,       \* emit_rows: the returned list of (term, type)
    rows_read      \* main: the number of input lines consumed

vars == <<pc, raw_term, canon1, canon2, cur_line, cur_row, cur_term, cur_cap,
          cur_rules, cur_variants, with_stats, enrichment_stats, stats_before,
          enrich_calls, options, emitted, rows_read>>

-----------------------------------------------------------------------------
(* Characters and character classes                                        *)

LowerLetters == {"a","b","c","d","e","f","g","h","i","j","k","l","m","n","o",
                 "p","q","r","s","t","u","v","w","x","y","z"}
UpperLetters == {"A","B","C","D","E","F","G","H","I","J","K","L","M","N","O",
                 "P","Q","R","S","T","U","V","W","X","Y","Z"}
AsciiDigits == {"0","1","2","3","4","5","6","7","8","9"}

\* The ASCII whitespace: space, \t, \n, \r, form feed, then U+000B
\* (vertical tab) and the separators U+001C to U+001F, each written as the
\* character itself.
AsciiSpaces == {" ", "\t", "\n", "\r", "\f", "", "", "", "", ""}

\* The whitespace outside ASCII: U+0085 (next line), U+00A0 and the
\* spaces and separators of the higher planes, as tokens.
UnicodeSpaces ==
    {"NEL", "NBSP", "U+1680", "U+2000", "U+2001", "U+2002", "U+2003", "U+2004",
     "U+2005", "U+2006", "U+2007", "U+2008", "U+2009", "U+200A", "U+2028",
     "U+2029", "U+202F", "U+205F", "U+3000"}

Whitespace == AsciiSpaces \cup UnicodeSpaces

\* str.isspace() / regex \s on a str pattern / the characters str.strip()
\* and str.split() take for whitespace: Unicode whitespace.
IsSpace(c) == c \in Whitespace

\* regex \d on a str pattern: Unicode decimal digits (category Nd).
IsDecimal(c) == c \in AsciiDigits

\* str.isdigit(): decimal digits and the other digit characters, such as
\* the superscript digits, which int() does not accept.
IsDigitChar(c) == c \in AsciiDigits \cup {"SUP2"}

\* regex \w on a str pattern: alphanumerics and the underscore.
IsWord(c) == c \in LowerLetters \cup UpperLetters \cup AsciiDigits \cup {"_", "SUP2"}

\* Membership of a character in a regex class, the class given by name.
InClass(cls, c) ==
    CASE cls = "s"     -> IsSpace(c)
      [] cls = "S"     -> ~IsSpace(c)
      [] cls = "d"     -> IsDecimal(c)
      [] cls = "dot"   -> c # "\n"
      [] cls = "punct" -> c \in {".", "!", "?", ",", ";", ":"}
      [] cls = "az"    -> c \in LowerLetters
      [] cls = "nopar" -> c \notin {"(", ")"}
      [] cls = "14"    -> c \in {"1", "2", "3", "4"}
      [] cls = "01"    -> c \in {"0", "1"}
      [] cls = "crlf"  -> c \in {"\r", "\n"}

-----------------------------------------------------------------------------
(* String primitives                                                       *)

SetMax(S) == CHOOSE x \in S : \A y \in S : y <= x
SetMin(S) == CHOOSE x \in S : \A y \in S : x <= y

\* s[i:j] with 1-based i and exclusive j (empty when j <= i).
Slice(s, i, j) == SubSeq(s, i, j - 1)

\* s[i:] with 1-based i.
From(s, i) == SubSeq(s, i, Len(s))

\* The end of the greedy run cls* starting at i: the first index at or
\* after i whose character is not in cls, Len(s)+1 when there is none.
RECURSIVE RunEnd(_, _, _)
RunEnd(s, i, cls) ==
    IF i <= Len(s) /\ InClass(cls, s[i]) THEN RunEnd(s, i + 1, cls) ELSE i

\* The start of the run cls* that ends just before index j.
RECURSIVE RunStart(_, _, _)
RunStart(s, j, cls) ==
    IF j > 1 /\ InClass(cls, s[j - 1]) THEN RunStart(s, j - 1, cls) ELSE j

\* str.strip(): both ends; str.rstrip(): the right end only.
Strip(s) ==
    LET a == RunEnd(s, 1, "s")
        b == RunStart(s, Len(s) + 1, "s")
    IN  IF a > Len(s) THEN <<>> ELSE Slice(s, a, b)

RStrip(s) == Slice(s, 1, RunStart(s, Len(s) + 1, "s"))

\* str.lower(), on the characters of the model.
LowerChar(c) ==
    IF c \in UpperLetters
    THEN CHOOSE l \in LowerLetters :
           \E k \in 1..26 :
              /\ <<"A","B","C","D","E","F","G","H","I","J","K","L","M","N","O",
                   "P","Q","R","S","T","U","V","W","X","Y","Z">>[k] = c
              /\ <<"a","b","c","d","e","f","g","h","i","j","k","l","m","n","o",
                   "p","q","r","s","t","u","v","w","x","y","z">>[k] = l
    ELSE c

Lower(s) == [i \in 1..Len(s) |-> LowerChar(s[i])]

\* s.startswith(lit) at index i: the literal lit occurs in s at i.
LitAt(s, i, lit) ==
    /\ i + Len(lit) - 1 <= Len(s)
    /\ \A k \in 1..Len(lit) : s[i + k - 1] = lit[k]

\* `lit in s`
Contains(s, lit) == \E i \in 1..(Len(s) + 1) : LitAt(s, i, lit)

\* str.replace(old, new) with a non-empty old: every non-overlapping
\* occurrence, left to right.
RECURSIVE ReplaceFrom(_, _, _, _)
ReplaceFrom(s, i, old, new) ==
    IF i > Len(s) THEN <<>>
    ELSE IF LitAt(s, i, old) THEN new \o ReplaceFrom(s, i + Len(old), old, new)
    ELSE <<s[i]>> \o ReplaceFrom(s, i + 1, old, new)

Replace(s, old, new) == ReplaceFrom(s, 1, old, new)

\* WS_RE.sub(" ", s): every maximal whitespace run becomes one space.
RECURSIVE CollapseFrom(_, _)
CollapseFrom(s, i) ==
    IF i > Len(s) THEN <<>>
    ELSE IF IsSpace(s[i]) THEN <<" ">> \o CollapseFrom(s, RunEnd(s, i, "s"))
    ELSE <<s[i]>> \o CollapseFrom(s, i + 1)

\* normalize_spaces / _normalize_spaces
normalize_spaces(s) == Strip(CollapseFrom(s, 1))

-----------------------------------------------------------------------------
(* canonicalize                                                            *)

\* FINAL_PUNCT_RE = [\s\u00a0]*[\.!?,;:]+\s*$ matches at index i: the
\* three greedy runs are over disjoint classes, so no backtracking changes
\* them, and the last one takes a final newline, so $ is the end of s.
FinalPunctMatchAt(s, i) ==
    LET a == RunEnd(s, i, "s")
        b == RunEnd(s, a, "punct")
        c == RunEnd(s, b, "s")
    IN  b > a /\ c = Len(s) + 1

\* FINAL_PUNCT_RE.sub("", s): the leftmost match is removed; it ends at the
\* end of the string, so there is no second match.
FinalPunctSub(s) ==
    LET starts == {i \in 1..Len(s) : FinalPunctMatchAt(s, i)}
    IN  IF starts = {} THEN s
        ELSE LET i == CHOOSE m \in starts : \A n \in starts : m <= n
             IN  Slice(s, 1, i)

canonicalize(t) ==
    LET t1 == Lower(Strip(t))
        t2 == FinalPunctSub(t1)
    IN  Strip(CollapseFrom(t2, 1))

-----------------------------------------------------------------------------
(* parse_line                                                              *)

\* Python slices are 0-based and end-exclusive: s[a:b].
PySlice(s, a, b) == SubSeq(s, a + 1, IF b < Len(s) THEN b ELSE Len(s))

ORDER_SLICE == <<0, 5>>
CODE_SLICE == <<6, 13>>
FLAG_INDEX == 14
DESC_START_INDEX == 16
LONG_DESC_INDEX == 76

\* The outcomes of parse_line: a row, None, or an exception that propagates.
NoRow == [kind |-> "none"]
Raised(e) == [kind |-> "raise", error |-> e]
IcdRow(order, code, flag, short_desc, long_desc) ==
    [kind |-> "row", order |-> order, code |-> code, flag |-> flag,
     short_desc |-> short_desc, long_desc |-> long_desc]

\* str.isdigit(): non-empty and every character a digit character.
IsDigitStr(s) == Len(s) > 0 /\ \A i \in 1..Len(s) : IsDigitChar(s[i])

\* int(s) is defined on the decimal digits only; it raises ValueError on
\* any other character, the superscript digits included.
IntDefined(s) == Len(s) > 0 /\ \A i \in 1..Len(s) : IsDecimal(s[i])

DigitVal(c) == CHOOSE v \in 0..9 : <<"0","1","2","3","4","5","6","7","8","9">>[v + 1] = c

RECURSIVE IntOf(_)
IntOf(s) == IF Len(s) = 0 THEN 0
            ELSE 10 * IntOf(SubSeq(s, 1, Len(s) - 1)) + DigitVal(s[Len(s)])

\* The common head of LINE_RE and of the last-resort pattern,
\*   ^(?P<order>\d{5})\s+(?P<code>\S+)\s+(?P<flag>[01])\s+
\* Every run but the last is forced: each greedy run is followed by an
\* element of the complementary class.  ws_from..ws_to-1 is the whitespace
\* run after the flag, of which the last \s+ may take any non-empty prefix.
HeadMatch(s) ==
    LET a == RunEnd(s, 6, "s")
        b == RunEnd(s, a, "S")
        c == RunEnd(s, b, "s")
        d == RunEnd(s, c + 1, "s")
    IN  [ok |-> /\ Len(s) >= 5
                /\ \A i \in 1..5 : IsDecimal(s[i])
                /\ a > 6 /\ b > a /\ c > b
                /\ c <= Len(s) /\ InClass("01", s[c])
                /\ d > c + 1,
         order |-> PySlice(s, 0, 5), code |-> Slice(s, a, b),
         flag |-> IF c <= Len(s) THEN <<s[c]>> ELSE <<>>,
         ws_from |-> c + 1, ws_to |-> d]

\* The end of (?P<long>.*) when `(?P<long>.*)\s*$` is matched from f: the
\* greedy .* gives back characters until the rest is whitespace; 0 when no
\* choice works.
LongEnd(s, f) ==
    LET ends == {g \in f..RunEnd(s, f, "dot") : RunEnd(s, g, "s") = Len(s) + 1}
    IN  IF ends = {} THEN 0 ELSE CHOOSE g \in ends : \A h \in ends : h <= g

\* The tail of LINE_RE, (?P<short>.*?)\s{2,}(?P<long>.*)\s*$, tried in the
\* order of the backtracking matcher: the \s+ before it from its longest
\* choice down, the lazy short from its shortest up, \s{2,} from its
\* longest down.

\* The starts of (?P<long>..) that complete a match when \s{2,} begins at e.
LongStarts(s, e) == {f \in (e + 2)..RunEnd(s, e, "s") : LongEnd(s, f) # 0}

\* The ends of (?P<short>..) that complete a match when it begins at start.
ShortEnds(s, start) ==
    {e \in start..RunEnd(s, start, "dot") : LongStarts(s, e) # {}}

\* The groups when the tail begins at start: the shortest short, then the
\* longest \s{2,}.
LineReGroups(s, h, start, e) ==
    [ok |-> TRUE, order |-> h.order, code |-> h.code, flag |-> h.flag,
     short |-> Slice(s, start, e),
     long |-> Slice(s, SetMax(LongStarts(s, e)),
                    LongEnd(s, SetMax(LongStarts(s, e))))]

LineReFrom(s, h, starts) ==
    IF starts = {} THEN [ok |-> FALSE]
    ELSE LineReGroups(s, h, SetMax(starts), SetMin(ShortEnds(s, SetMax(starts))))

\* LINE_RE.match(raw): the groups of the first successful match.
LineReMatch(s) ==
    LET h == HeadMatch(s)
    IN  IF h.ok
        THEN LineReFrom(s, h, {i \in (h.ws_from + 1)..h.ws_to : ShortEnds(s, i) # {}})
        ELSE [ok |-> FALSE]

\* re.match(r"^(?P<order>\d{5})\s+(?P<code>\S+)\s+(?P<flag>[01])\s+(?P<rest>.*)$", raw):
\* raw does not end in a newline, so $ is its end and .* has to reach it.
LastResortMatch(s) ==
    LET h == HeadMatch(s)
        starts == IF h.ok
                  THEN {i \in (h.ws_from + 1)..h.ws_to : RunEnd(s, i, "dot") = Len(s) + 1}
                  ELSE {}
    IN  IF starts = {} THEN [ok |-> FALSE]
        ELSE LET i == CHOOSE x \in starts : \A y \in starts : y <= x
             IN  [ok |-> TRUE, order |-> h.order, code |-> h.code, flag |-> h.flag,
                  rest |-> From(s, i)]

parse_line(ln) ==
    LET raw == Slice(ln, 1, RunStart(ln, Len(ln) + 1, "crlf"))
        flag_ch == PySlice(raw, FLAG_INDEX, FLAG_INDEX + 1)
        short_desc == RStrip(PySlice(raw, DESC_START_INDEX, LONG_DESC_INDEX))
        long_desc == Strip(PySlice(raw, LONG_DESC_INDEX, Len(raw)))
        m == LineReMatch(raw)
        m2 == LastResortMatch(raw)
    IN  IF Strip(raw) = <<>> THEN NoRow
        ELSE IF /\ Len(raw) >= LONG_DESC_INDEX
                /\ IsDigitStr(PySlice(raw, ORDER_SLICE[1], ORDER_SLICE[2]))
                /\ flag_ch \in {<<"0">>, <<"1">>}
        THEN IF ~IntDefined(PySlice(raw, ORDER_SLICE[1], ORDER_SLICE[2]))
             THEN Raised("ValueError")
             ELSE IcdRow(IntOf(PySlice(raw, ORDER_SLICE[1], ORDER_SLICE[2])),
                         Strip(PySlice(raw, CODE_SLICE[1], CODE_SLICE[2])),
                         IntOf(flag_ch),
                         short_desc,
                         IF long_desc = <<>> THEN short_desc ELSE long_desc)
        ELSE IF m.ok
        THEN IcdRow(IntOf(m.order), m.code, IntOf(m.flag), Strip(m.short), Strip(m.long))
        ELSE IF m2.ok
        THEN IcdRow(IntOf(m2.order), m2.code, IntOf(m2.flag), Strip(m2.rest), Strip(m2.rest))
        ELSE NoRow

-----------------------------------------------------------------------------
(* Regular expressions of the rule module                                  *)
(*                                                                         *)
(* A compiled pattern is a sequence of elements:                           *)
(*   [t |-> "lit",  v |-> chars]     the literal characters                *)
(*   [t |-> "b"]                     \b, a word boundary                   *)
(*   [t |-> "plus", v |-> cls]       cls+, greedy                          *)
(*   [t |-> "star", v |-> cls]       cls*, greedy                          *)
(*   [t |-> "one",  v |-> cls]       one character of cls                  *)
(*   [t |-> "alt",  v |-> <<l1,..>>] (?:l1|l2|...), literals, in order     *)

Lit(chars) == [t |-> "lit", v |-> chars]
WordB == [t |-> "b"]
Plus(cls) == [t |-> "plus", v |-> cls]
Star(cls) == [t |-> "star", v |-> cls]
One(cls) == [t |-> "one", v |-> cls]
Alt(lits) == [t |-> "alt", v |-> lits]

\* \b before index i: exactly one of s[i-1], s[i] is a word character.
WordBoundary(s, i) ==
    (i > 1 /\ IsWord(s[i - 1])) # (i <= Len(s) /\ IsWord(s[i]))

\* The end (exclusive) of the first match, in backtracking order, of the
\* elements k.. of pat at index i of s; 0 when there is none.
RECURSIVE MatchEnd(_, _, _, _)
MatchEnd(pat, k, s, i) ==
    IF k > Len(pat) THEN i
    ELSE LET e == pat[k] IN
      CASE e.t = "lit" ->
             IF LitAt(s, i, e.v) THEN MatchEnd(pat, k + 1, s, i + Len(e.v)) ELSE 0
        [] e.t = "b" ->
             IF WordBoundary(s, i) THEN MatchEnd(pat, k + 1, s, i) ELSE 0
        [] e.t = "one" ->
             IF i <= Len(s) /\ InClass(e.v, s[i])
             THEN MatchEnd(pat, k + 1, s, i + 1) ELSE 0
        [] e.t \in {"plus", "star"} ->
             LET lo == IF e.t = "plus" THEN i + 1 ELSE i
                 ok == {j \in lo..RunEnd(s, i, e.v) : MatchEnd(pat, k + 1, s, j) # 0}
             IN  IF ok = {} THEN 0 ELSE MatchEnd(pat, k + 1, s, SetMax(ok))
        [] e.t = "alt" ->
             LET ok == {a \in 1..Len(e.v) :
                          /\ LitAt(s, i, e.v[a])
                          /\ MatchEnd(pat, k + 1, s, i + Len(e.v[a])) # 0}
             IN  IF ok = {} THEN 0
                 ELSE MatchEnd(pat, k + 1, s, i + Len(e.v[SetMin(ok)]))

\* rx.search(s) from index i: the span <<start, end>> of the leftmost
\* match, <<0, 0>> when there is none.
SearchFrom(pat, s, i) ==
    LET starts == {j \in i..(Len(s) + 1) : MatchEnd(pat, 1, s, j) # 0}
    IN  IF starts = {} THEN <<0, 0>>
        ELSE <<SetMin(starts), MatchEnd(pat, 1, s, SetMin(starts))>>

\* rx.finditer(s): the spans of the non-overlapping matches, left to right
\* (every pattern of the module matches at least one character).
RECURSIVE FindAllFrom(_, _, _)
FindAllFrom(pat, s, i) ==
    LET m == SearchFrom(pat, s, i)
    IN  IF m[1] = 0 THEN <<>> ELSE <<m>> \o FindAllFrom(pat, s, m[2])

FindAll(pat, s) == FindAllFrom(pat, s, 1)

\* s with each span spans[j] replaced by repls[j].
RECURSIVE SubSpansFrom(_, _, _, _, _)
SubSpansFrom(s, spans, repls, j, pos) ==
    IF j > Len(spans) THEN From(s, pos)
    ELSE Slice(s, pos, spans[j][1]) \o repls[j]
         \o SubSpansFrom(s, spans, repls, j + 1, spans[j][2])

SubSpans(s, spans, repls) == SubSpansFrom(s, spans, repls, 1, 1)

\* rx.sub(repl, s) for a replacement without group references.
RegexSub(pat, repl, s) ==
    LET spans == FindAll(pat, s)
    IN  SubSpans(s, spans, [j \in 1..Len(spans) |-> repl])

\* rx.sub(repl, s, count=1)
RegexSubFirst(pat, repl, s) ==
    LET m == SearchFrom(pat, s, 1)
    IN  IF m[1] = 0 THEN s ELSE SubSpans(s, <<m>>, <<repl>>)

\* "sep".join(strs)
RECURSIVE Join(_, _)
Join(strs, sep) ==
    IF Len(strs) = 0 THEN <<>>
    ELSE IF Len(strs) = 1 THEN strs[1]
    ELSE strs[1] \o sep \o Join(Tail(strs), sep)

\* [x for x in strs if x]
RECURSIVE NonEmpty(_)
NonEmpty(strs) ==
    IF Len(strs) = 0 THEN <<>>
    ELSE (IF strs[1] = <<>> THEN <<>> ELSE <<strs[1]>>) \o NonEmpty(Tail(strs))

\* The concatenation of a sequence of sequences.
RECURSIVE Flatten(_)
Flatten(ss) == IF Len(ss) = 0 THEN <<>> ELSE ss[1] \o Flatten(Tail(ss))

-----------------------------------------------------------------------------
(* The enrichment rules                                                    *)

_normalize_dashes(term) ==
    Replace(Replace(term, <<"ENDASH">>, <<"-">>), <<"EMDASH">>, <<"-">>)

HasDash(term) == \E i \in 1..Len(term) : term[i] \in {"-", "ENDASH", "EMDASH"}

_rule_hyphen_to_space(term) ==
    IF ~HasDash(term) THEN <<>>
    ELSE <<Replace(_normalize_dashes(term), <<"-">>, <<" ">>)>>

_rule_hyphen_remove(term) ==
    IF ~HasDash(term) THEN <<>>
    ELSE <<Replace(_normalize_dashes(term), <<"-">>, <<>>)>>

_rule_remove_apostrophes(term) ==
    IF ~Contains(term, <<"'">>) /\ ~Contains(term, <<"RSQUO">>) THEN <<>>
    ELSE <<Replace(Replace(term, <<"RSQUO">>, <<>>), <<"'">>, <<>>)>>

_rule_swap_and_amp(term) ==
    (IF Contains(term, <<" ","a","n","d"," ">>) THEN <<Replace(term, <<" ","a","n","d"," ">>, <<" ","&"," ">>)>> ELSE <<>>)
    \o (IF Contains(term, <<" ","&"," ">>) THEN <<Replace(term, <<" ","&"," ">>, <<" ","a","n","d"," ">>)>> ELSE <<>>)

_rule_swap_or_slash(term) ==
    (IF Contains(term, <<" ","o","r"," ">>) THEN <<Replace(term, <<" ","o","r"," ">>, <<" ","/"," ">>)>> ELSE <<>>)
    \o (IF Contains(term, <<" ","/"," ">>) THEN <<Replace(term, <<" ","/"," ">>, <<" ","o","r"," ">>)>> ELSE <<>>)

\* _regex_sub_rule(pattern, replacement), pattern given as compiled.
_regex_sub_rule(pattern, replacement, term) ==
    IF SearchFrom(pattern, term, 1)[1] = 0 THEN <<>>
    ELSE <<RegexSub(pattern, replacement, term)>>

\* ([a-z]+)\((s|es)\)   ([a-z]+y)\(ies\)   \(([^()]*)\)
SUFFIX_S_RE == <<Plus("az"), Lit(<<"(">>), Alt(<<<<"s">>, <<"e","s">>>>), Lit(<<")">>)>>
SUFFIX_IES_RE == <<Plus("az"), Lit(<<"y">>), Lit(<<"(","i","e","s",")">>)>>
PAREN_RE == <<Lit(<<"(">>), Star("nopar"), Lit(<<")">>)>>

\* Groups of a SUFFIX_S_RE match m of s: the base word and the suffix.
SuffixOf(s, m) == IF LitAt(s, m[2] - 3, <<"(","s",")">>) THEN <<"s">> ELSE <<"e","s">>
BaseOf(s, m) == Slice(s, m[1], m[2] - Len(SuffixOf(s, m)) - 2)
\* Group 1 of a SUFFIX_IES_RE match: the word ending in y.
BaseYOf(s, m) == Slice(s, m[1], m[2] - 5)
\* Group 1 of a PAREN_RE match: the text between the parentheses.
ContentOf(s, m) == Slice(s, m[1] + 1, m[2] - 1)

_optional_suffix_variants(s) ==
    LET ms == FindAll(SUFFIX_S_RE, s)
        my == FindAll(SUFFIX_IES_RE, s)
    IN  Flatten([j \in 1..Len(ms) |->
                   << Slice(s, 1, ms[j][1]) \o BaseOf(s, ms[j]) \o From(s, ms[j][2]),
                      Slice(s, 1, ms[j][1]) \o BaseOf(s, ms[j]) \o SuffixOf(s, ms[j])
                         \o From(s, ms[j][2]) >>])
        \o
        Flatten([j \in 1..Len(my) |->
                   LET base_y == BaseYOf(s, my[j])
                       plural == SubSeq(base_y, 1, Len(base_y) - 1) \o <<"i","e","s">>
                   IN  << Slice(s, 1, my[j][1]) \o base_y \o From(s, my[j][2]),
                          Slice(s, 1, my[j][1]) \o plural \o From(s, my[j][2]) >>])

\* term_for_parens: the optional-suffix parentheses removed, the word kept.
TermForParens(term) ==
    LET ms == FindAll(SUFFIX_S_RE, term)
        t1 == SubSpans(term, ms, [j \in 1..Len(ms) |-> BaseOf(term, ms[j])])
        my == FindAll(SUFFIX_IES_RE, t1)
    IN  SubSpans(t1, my, [j \in 1..Len(my) |-> BaseYOf(t1, my[j])])

\* The variants of the general '(...)' groups `matches` of term_for_parens,
\* contents[j] being the stripped text of group j.
ParenVariants(tfp, matches, contents) ==
    LET n == Len(matches)
    IN  \* remove all '(...)' segments completely
        NonEmpty(<<normalize_spaces(SubSpans(tfp, matches, [j \in 1..n |-> <<" ">>]))>>)
        \* remove the parentheses but keep their content inline
        \o NonEmpty(<<normalize_spaces(SubSpans(tfp, matches,
              [j \in 1..n |-> <<" ">> \o ContentOf(tfp, matches[j]) \o <<" ">>]))>>)
        \* with several groups, one variant per group kept inline
        \o (IF n > 1
            THEN NonEmpty([keep_i \in 1..n |->
                   normalize_spaces(SubSpans(tfp, matches,
                      [j \in 1..n |->
                         IF j = keep_i /\ contents[j] # <<>>
                         THEN <<" ">> \o contents[j] \o <<" ">>
                         ELSE <<" ">>]))])
            ELSE <<>>)
        \* just the parenthetical content
        \o NonEmpty(contents)
        \o NonEmpty(<<normalize_spaces(Join(NonEmpty(contents), <<" ">>))>>)

ParenVariantsOf(tfp, matches) ==
    IF Len(matches) = 0 THEN <<>>
    ELSE ParenVariants(tfp, matches,
                       [j \in 1..Len(matches) |-> Strip(ContentOf(tfp, matches[j]))])

ParenSplitOf(tfp) == ParenVariantsOf(tfp, FindAll(PAREN_RE, tfp))

NormalizeAll(strs) == [j \in 1..Len(strs) |-> normalize_spaces(strs[j])]

_rule_parentheses_split(term) ==
    IF ~Contains(term, <<"(">>) \/ ~Contains(term, <<")">>) THEN <<>>
    ELSE <<Lower(term)>>
         \o NormalizeAll(_optional_suffix_variants(term))
         \o ParenSplitOf(TermForParens(term))

\* \bdue\s+to\b
DUE_TO_RE == <<WordB, Lit(<<"d","u","e">>), Plus("s"), Lit(<<"t","o">>), WordB>>

\* Faulty variant: only the first of the two replacements is yielded.
_rule_due_to_variants_OnlyFirst(term) ==
    IF SearchFrom(DUE_TO_RE, term, 1)[1] = 0 THEN <<>>
    ELSE << RegexSub(DUE_TO_RE, <<"b","e","c","a","u","s","e"," ","o","f">>, term) >>

_rule_due_to_variants(term) ==
    IF SearchFrom(DUE_TO_RE, term, 1)[1] = 0 THEN <<>>
    ELSE << RegexSub(DUE_TO_RE, <<"b","e","c","a","u","s","e"," ","o","f">>, term),
            RegexSub(DUE_TO_RE, <<"c","a","u","s","e","d"," ","b","y">>, term) >>

\* str.endswith(suffix)
EndsWith(s, suffix) ==
    Len(s) >= Len(suffix) /\ LitAt(s, Len(s) - Len(suffix) + 1, suffix)

\* len(s.split()): the number of maximal runs of non-whitespace.
WordCount(s) ==
    Cardinality({i \in 1..Len(s) : ~IsSpace(s[i]) /\ (i = 1 \/ IsSpace(s[i - 1]))})

_rule_unspecified_suffix_to_prefix(term) ==
    LET suffix == <<","," ","u","n","s","p","e","c","i","f","i","e","d">>
        stem0 == RStrip(SubSeq(term, 1, Len(term) - Len(suffix)))
        stem == IF EndsWith(stem0, <<",">>)
                THEN RStrip(SubSeq(stem0, 1, Len(stem0) - 1)) ELSE stem0
    IN  IF ~EndsWith(term, suffix) THEN <<>>
        ELSE IF stem = <<>> THEN <<>>
        ELSE IF WordCount(stem) < 2 THEN <<>>
        ELSE <<<<"u","n","s","p","e","c","i","f","i","e","d"," ">> \o stem>>

\* \bstage\s+(?P<a>[1-4])\s+(?:through|thru)\s+stage\s+(?P<b>[1-4])\b
STAGE_RANGE_RE ==
    <<WordB, Lit(<<"s","t","a","g","e">>), Plus("s"), One("14"), Plus("s"),
      Alt(<<<<"t","h","r","o","u","g","h">>, <<"t","h","r","u">>>>), Plus("s"), Lit(<<"s","t","a","g","e">>), Plus("s"),
      One("14"), WordB>>

_rule_expand_ckd_stage_range(term) ==
    LET m == SearchFrom(STAGE_RANGE_RE, term, 1)
        a == DigitVal(term[RunEnd(term, m[1] + 5, "s")])
        b == DigitVal(term[m[2] - 1])
        lo == IF a <= b THEN a ELSE b
        hi == IF a <= b THEN b ELSE a
    IN  IF m[1] = 0 THEN <<>>
        ELSE [k \in 1..(hi - lo + 1) |->
                SubSpans(term, <<m>>,
                         <<<<"s","t","a","g","e"," ">> \o <<(<<"1","2","3","4">>)[lo + k - 1]>> >>)]

-----------------------------------------------------------------------------
(* The rule table                                                          *)

\* EnrichmentRule(rule_id, description, apply): apply is the name of the
\* rule function, with the compiled pattern and the replacement for the
\* functions that _regex_sub_rule builds.
EnrichmentRule(rule_id, fn) ==
    [rule_id |-> rule_id, fn |-> fn, pattern |-> <<>>, replacement |-> <<>>]
RegexRule(rule_id, pattern, replacement) ==
    [rule_id |-> rule_id, fn |-> "_regex_sub_rule",
     pattern |-> pattern, replacement |-> replacement]

\* The patterns of the B rules are written r"\\bword\\b": in a raw string
\* the two backslashes reach the regex compiler, which reads an escaped
\* backslash followed by the letter b.  The compiled pattern is the literal
\* text \bword\b, not the word between two word boundaries.
TablePattern(word) == <<Lit(<<"\\", "b">> \o word \o <<"\\", "b">>)>>

ENRICHMENT_RULES == <<
    EnrichmentRule("P1", "_rule_parentheses_split"),
    EnrichmentRule("D1", "_rule_expand_ckd_stage_range"),
    EnrichmentRule("A1", "_rule_hyphen_to_space"),
    EnrichmentRule("A2", "_rule_hyphen_remove"),
    EnrichmentRule("A3", "_rule_remove_apostrophes"),
    EnrichmentRule("A4", "_rule_swap_and_amp"),
    EnrichmentRule("A5", "_rule_swap_or_slash"),
    RegexRule("B1", TablePattern(<<"s","y","n","d","r","o","m","e">>), <<"s","y","n","d">>),
    RegexRule("B1", TablePattern(<<"s","y","n","d">>), <<"s","y","n","d","r","o","m","e">>),
    RegexRule("B2", TablePattern(<<"c","h","r","o","n","i","c">>), <<"c","h","r">>),
    RegexRule("B2", TablePattern(<<"c","h","r">>), <<"c","h","r","o","n","i","c">>),
    RegexRule("B3", TablePattern(<<"a","c","u","t","e">>), <<"a","c","u">>),
    RegexRule("B3", TablePattern(<<"a","c","u">>), <<"a","c","u","t","e">>),
    RegexRule("B4", TablePattern(<<"l","e","f","t">>), <<"l","t">>),
    RegexRule("B4", TablePattern(<<"r","i","g","h","t">>), <<"r","t">>),
    RegexRule("B4", TablePattern(<<"l","t">>), <<"l","e","f","t">>),
    RegexRule("B4", TablePattern(<<"r","t">>), <<"r","i","g","h","t">>),
    EnrichmentRule("C1", "_rule_due_to_variants"),
    EnrichmentRule("C2", "_rule_unspecified_suffix_to_prefix") >>

\* The keys of RULE_DESCRIPTIONS: the rule ids of the table.
RULE_IDS == {"P1", "D1", "A1", "A2", "A3", "A4", "A5",
             "B1", "B2", "B3", "B4", "C1", "C2"}

\* rule.apply(term)
Apply(rule, term) ==
    CASE rule.fn = "_rule_parentheses_split" -> _rule_parentheses_split(term)
      [] rule.fn = "_rule_expand_ckd_stage_range" -> _rule_expand_ckd_stage_range(term)
      [] rule.fn = "_rule_hyphen_to_space" -> _rule_hyphen_to_space(term)
      [] rule.fn = "_rule_hyphen_remove" -> _rule_hyphen_remove(term)
      [] rule.fn = "_rule_remove_apostrophes" -> _rule_remove_apostrophes(term)
      [] rule.fn = "_rule_swap_and_amp" -> _rule_swap_and_amp(term)
      [] rule.fn = "_rule_swap_or_slash" -> _rule_swap_or_slash(term)
      [] rule.fn = "_rule_due_to_variants" -> _rule_due_to_variants(term)
      [] rule.fn = "_rule_unspecified_suffix_to_prefix" ->
             _rule_unspecified_suffix_to_prefix(term)
      [] rule.fn = "_regex_sub_rule" ->
             _regex_sub_rule(rule.pattern, rule.replacement, term)

-----------------------------------------------------------------------------
(* enrich                                                                  *)

\* Counter(): every key counts 0 until it is incremented.
EmptyCounter == [r \in RULE_IDS |-> 0]

\* EnrichmentStats()
EnrichmentStats ==
    [terms_seen |-> 0, affected_terms |-> EmptyCounter, variants_added |-> EmptyCounter]

\* Faulty variant: the seen-set starts empty instead of holding the input term.
EnrichLocals_EmptySeen(term) ==
    [variants |-> <<>>, seen |-> {}, fired_rules |-> {}, local_added |-> EmptyCounter]

\* The locals of one enrich call.
EnrichLocals(term) ==
    [variants |-> <<>>, seen |-> {term}, fired_rules |-> {}, local_added |-> EmptyCounter]

\* Faulty variant: the cap test is `>` instead of `>=`: one variant too many.
add_CapOffByOne(loc, new_term, rule_id, max_variants) ==
    LET nt == normalize_spaces(new_term)
    IN  IF Len(loc.variants) > max_variants THEN loc
        ELSE IF nt = <<>> \/ nt \in loc.seen THEN loc
        ELSE [variants |-> Append(loc.variants, <<nt, rule_id>>),
              seen |-> loc.seen \cup {nt},
              fired_rules |-> loc.fired_rules \cup {rule_id},
              local_added |-> [loc.local_added EXCEPT ![rule_id] = @ + 1]]

\* add(new_term, rule_id), on the locals loc of the call.
add(loc, new_term, rule_id, max_variants) ==
    LET nt == normalize_spaces(new_term)
    IN  IF Len(loc.variants) >= max_variants THEN loc
        ELSE IF nt = <<>> \/ nt \in loc.seen THEN loc
        ELSE [variants |-> Append(loc.variants, <<nt, rule_id>>),
              seen |-> loc.seen \cup {nt},
              fired_rules |-> loc.fired_rules \cup {rule_id},
              local_added |-> [loc.local_added EXCEPT ![rule_id] = @ + 1]]

\* for candidate in rule.apply(term): add(candidate, rule.rule_id)
RECURSIVE AddCandidates(_, _, _, _, _)
AddCandidates(loc, cands, j, rule_id, max_variants) ==
    IF j > Len(cands) THEN loc
    ELSE AddCandidates(add(loc, cands[j], rule_id, max_variants),
                       cands, j + 1, rule_id, max_variants)

\* for rule in rules: ...
RECURSIVE RunRules(_, _, _, _, _)
RunRules(loc, rules, k, term, max_variants) ==
    IF k > Len(rules) THEN loc
    ELSE RunRules(AddCandidates(loc, Apply(rules[k], term), 1,
                                rules[k].rule_id, max_variants),
                  rules, k + 1, term, max_variants)

\* The locals of enrich(term, max_variants=.., rules=..) when it returns.
EnrichRun(term, max_variants, rules) ==
    RunRules(EnrichLocals(term), rules, 1, term, max_variants)

\* The value enrich returns.
enrich(term, max_variants, rules) == EnrichRun(term, max_variants, rules).variants

\* Faulty variant: affected_terms counts every accepted variant, not every call.
StatsAfter_PerVariant(st, loc) ==
    [terms_seen |-> st.terms_seen + 1,
     affected_terms |-> [r \in RULE_IDS |-> st.affected_terms[r] + loc.local_added[r]],
     variants_added |-> [r \in RULE_IDS |->
                           st.variants_added[r] + loc.local_added[r]]]

\* Faulty variant: affected_terms is a flag, set to 1 when the rule fired.
StatsAfter_AssignOne(st, loc) ==
    [terms_seen |-> st.terms_seen + 1,
     affected_terms |-> [r \in RULE_IDS |->
                           IF r \in loc.fired_rules THEN 1 ELSE st.affected_terms[r]],
     variants_added |-> [r \in RULE_IDS |->
                           st.variants_added[r] + loc.local_added[r]]]

\* The accumulator after an enrich call that was given it.
StatsAfter(st, loc) ==
    [terms_seen |-> st.terms_seen + 1,
     affected_terms |-> [r \in RULE_IDS |->
                           st.affected_terms[r] + (IF r \in loc.fired_rules THEN 1 ELSE 0)],
     variants_added |-> [r \in RULE_IDS |->
                           st.variants_added[r] + loc.local_added[r]]]

enrich_stats(st, term, max_variants, rules) ==
    StatsAfter(st, EnrichRun(term, max_variants, rules))

-----------------------------------------------------------------------------
(* emit_rows                                                               *)

\* A type label is the sequence of the parts it is formatted from:
\* <<"official">>, <<"canonical:", "official+abbr">>, <<"enriched:", "C1">>.
\* ty.startswith("canonical:") is a test of the first part.

\* Faulty variant: a later entry replaces the one kept for the same term.
RECURSIVE Dedup_KeepLast(_, _, _)
Dedup_KeepLast(output, j, seen_term) ==
    IF j > Len(output) THEN <<>>
    ELSE LET t == Strip(output[j][1])
         IN  IF t = <<>> \/ \E k \in (j + 1)..Len(output) : Strip(output[k][1]) = t
             THEN Dedup_KeepLast(output, j + 1, seen_term)
             ELSE <<<<t, output[j][2]>>>> \o Dedup_KeepLast(output, j + 1, seen_term)

\* The de-dup pass of emit_rows over output[j..], seen_term being the set
\* of the terms kept so far.
RECURSIVE Dedup(_, _, _)
Dedup(output, j, seen_term) ==
    IF j > Len(output) THEN <<>>
    ELSE LET t == Strip(output[j][1])
         IN  IF t = <<>> \/ t \in seen_term THEN Dedup(output, j + 1, seen_term)
             ELSE <<<<t, output[j][2]>>>> \o Dedup(output, j + 1, seen_term \cup {t})

\* Faulty variant: every entry of output is taken for a canonical one.
IsCanonicalEntry_Any(e) == TRUE

\* ty.startswith("canonical:")
IsCanonicalEntry(e) == e[2][1] = "canonical:"

\* output after the official terms: long_desc, and short_desc on request.
OfficialEntries(icd_row, opts) ==
    <<<<icd_row.long_desc, <<"official">>>>>>
    \o (IF /\ opts.include_official_abbr
           /\ icd_row.short_desc # <<>>
           /\ icd_row.short_desc # icd_row.long_desc
        THEN <<<<icd_row.short_desc, <<"official+abbr">>>>>> ELSE <<>>)

\* for term, base_type in list(output): the canonical entries
CanonicalEntries(entries) ==
    [j \in 1..Len(entries) |->
       <<canonicalize(entries[j][1]), <<"canonical:", entries[j][2][1]>>>>]

\* output after the canonical forms.
WithCanonical(entries, opts) ==
    IF opts.include_canonical THEN entries \o CanonicalEntries(entries) ELSE entries

\* The entries of one enrich call of emit_rows.
EnrichedEntries(vs) == [k \in 1..Len(vs) |-> <<vs[k][1], <<"enriched:", vs[k][2]>>>>]

\* for canon_term, _ in canon_terms: for variant, rule_id in enrich(..)
EnrichedOf(canon_terms, cap) ==
    Flatten([j \in 1..Len(canon_terms) |->
               EnrichedEntries(enrich(canon_terms[j][1], cap, ENRICHMENT_RULES))])

\* output after the enriched variants.
WithEnriched(entries, opts) ==
    IF opts.include_enriched
    THEN entries \o EnrichedOf(SelectSeq(entries, IsCanonicalEntry),
                               opts.enriched_max_per_term)
    ELSE entries

\* The list `output` of emit_rows just before the de-dup pass.
EmitOutput(icd_row, opts) ==
    WithEnriched(WithCanonical(OfficialEntries(icd_row, opts), opts), opts)

emit_rows(icd_row, opts) == Dedup(EmitOutput(icd_row, opts), 1, {})

\* The terms emit_rows passes to enrich, in order.
EnrichedTerms(icd_row, opts) ==
    IF opts.include_enriched
    THEN SelectSeq(WithCanonical(OfficialEntries(icd_row, opts), opts), IsCanonicalEntry)
    ELSE <<>>

\* The accumulator after emit_rows was given it: one enrich call per term.
RECURSIVE StatsAfterTerms(_, _, _, _)
StatsAfterTerms(st, terms, j, cap) ==
    IF j > Len(terms) THEN st
    ELSE StatsAfterTerms(enrich_stats(st, terms[j][1], cap, ENRICHMENT_RULES),
                         terms, j + 1, cap)

emit_rows_stats(st, icd_row, opts) ==
    StatsAfterTerms(st, EnrichedTerms(icd_row, opts), 1, opts.enriched_max_per_term)

\* The record of one enrich call: the term it was given and the rule ids
\* that tag the variants it returned.
EnrichCall(term, vs) ==
    [term |-> term, tags |-> {vs[k][2] : k \in 1..Len(vs)}]

\* The enrich calls of emit_rows on the canonical entries, in order.
EnrichCallsOf(canon_terms, cap) ==
    [j \in 1..Len(canon_terms) |->
       EnrichCall(canon_terms[j][1], enrich(canon_terms[j][1], cap, ENRICHMENT_RULES))]

EnrichCalls(icd_row, opts) ==
    EnrichCallsOf(EnrichedTerms(icd_row, opts), opts.enriched_max_per_term)

-----------------------------------------------------------------------------
(* Bounds and input sets                                                   *)

MaxCanonLen == 4    \* canonicalize: the longest input string
MaxGap == 3         \* parse_line: the widest gap between two fields
MaxWords == 2       \* enrich: the most words in an input term
MaxCap == 3         \* enrich: the largest max_variants
MaxRows == 2        \* main: the most input lines of a run

\* All strings over an alphabet up to a length.
StringsUpTo(alphabet, n) == UNION {[1..k -> alphabet] : k \in 0..n}

Spaces(n) == [i \in 1..n |-> " "]

\* str.ljust(n)
Pad(s, n) == s \o Spaces(n - Len(s))

CanonAlphabet == {"a", "B", " ", ".", "NBSP", "\f"}
CanonInputs == StringsUpTo(CanonAlphabet, MaxCanonLen)

\* Input lines: the fields laid out in the fixed columns of the catalog,
\* or separated by gaps of spaces, with or without a line end.
LineOrders == {<<"0","0","0","0","1">>, <<"0","0","0","0","SUP2">>, <<"0","0","4","2">>}
LineCodes == {<<"A","0","0",".","0">>, <<>>}
LineFlags == {<<"0">>, <<"1">>, <<"2">>}
LineShorts == {<<"C","h","o","l","e","r","a">>, <<>>}
LineLongs == {<<"C","h","o","l","e","r","a"," ","d","u","e"," ","t","o"," ","x">>, <<>>}
LineEnds == {<<>>, <<"\n">>}

FixedWidthLine(order, code, flag, short, long, eol) ==
    order \o <<" ">> \o Pad(code, CODE_SLICE[2] - CODE_SLICE[1]) \o <<" ">> \o flag
    \o <<" ">> \o Pad(short, LONG_DESC_INDEX - DESC_START_INDEX) \o long \o eol

DelimitedLine(order, code, flag, short, long, gap1, gap2, eol) ==
    order \o <<" ">> \o code \o <<" ">> \o flag \o Spaces(gap1) \o short
    \o Spaces(gap2) \o long \o eol

ParseInputs ==
    {<<>>, <<" ", " ", " ">>, <<"\n">>}
    \cup {FixedWidthLine(o, c, f, s, l, e) :
            o \in LineOrders, c \in LineCodes, f \in LineFlags,
            s \in LineShorts, l \in LineLongs, e \in LineEnds}
    \cup {DelimitedLine(o, c, f, s, l, g[1], g[2], e) :
            o \in LineOrders, c \in LineCodes, f \in LineFlags,
            s \in LineShorts, l \in LineLongs, g \in (1..MaxGap) \X (1..MaxGap),
            e \in LineEnds}

\* Input terms of enrich: up to MaxWords words joined by single spaces.
\* The empty word makes terms with leading, trailing and doubled spaces,
\* "(B)" terms that are not lowercase: terms that are not canonical.
EnrichWords == {<<>>, <<"a","c","u","t","e">>, <<"a","c","u">>, <<"b","r","o","n","c","h","i","t","i","s">>, <<"\\","b","a","c","u","t","e","\\","b">>, <<"d","u","e"," ","t","o">>,
                <<"t","u","b","e","(","s",")">>, <<"(","B",")">>}
EnrichTerms == {Join(ws, <<" ">>) : ws \in StringsUpTo(EnrichWords, MaxWords)}

\* A caller's table in which two entries share one rule id.
SHARED_ID_RULES == <<
    EnrichmentRule("C1", "_rule_due_to_variants"),
    EnrichmentRule("C1", "_rule_parentheses_split"),
    EnrichmentRule("A1", "_rule_hyphen_to_space") >>

RuleTables == {ENRICHMENT_RULES, SHARED_ID_RULES}

\* An accumulator that earlier calls have already counted into.
UsedStats ==
    [terms_seen |-> 7,
     affected_terms |-> [r \in RULE_IDS |-> IF r \in {"P1", "C1"} THEN 2 ELSE 0],
     variants_added |-> [r \in RULE_IDS |-> IF r \in {"P1", "C1"} THEN 5 ELSE 0]]

\* Rows given to emit_rows directly.
EmitDescs == {<<>>, <<"c","h","o","l","e","r","a">>, <<"C","h","o","l","e","r","a",".">>, <<" ","x"," ">>, <<"x"," ","d","u","e"," ","t","o"," ","y">>, <<"t","u","b","e","(","s",")">>}

OptionSets ==
    [include_official_abbr : BOOLEAN, include_canonical : BOOLEAN,
     include_enriched : BOOLEAN, enriched_max_per_term : 0..MaxCap]

\* The arguments of main that reach the core.
\* --enriched-max-per-term: its default, and two small caps.
DEFAULT_ENRICHED_MAX_PER_TERM == 25

ArgSets ==
    [leaf_only : BOOLEAN, include_official_abbr : BOOLEAN, no_canonical : BOOLEAN,
     no_enriched : BOOLEAN,
     enriched_max_per_term : {1, MaxCap, DEFAULT_ENRICHED_MAX_PER_TERM}]

ScenarioLine ==
    <<"0","0","0","0","1"," ","A","0","0",".","0"," ","1"," ","C","h","o","l","e","r","a",","," ","d","u","e"," ","t","o"," ","V","i","b","r","i","o"," ","c","h","o","l","e","r","a","e"," "," ","C","h","o","l","e","r","a"," ","d","u","e"," ","t","o"," ","V","i","b","r","i","o"," ","c","h","o","l","e","r","a","e">>

FileLines ==
    {ScenarioLine,
     <<"\n">>,
     <<"0","0","0","0","2"," ","B","0","1"," ","0"," ","t","u","b","e","(","s",")"," "," ","T","u","b","e","(","s",")"," ","d","u","e"," ","t","o"," ","x">> \o <<"\n">>,
     <<"0","0","0","0","3"," ","C","0","2"," ","1"," ","X","-","r","a","y"," "," ","x","-","r","a","y">> \o <<"\n">>,
     FixedWidthLine(<<"0","0","0","0","SUP2">>, <<"A","0","0">>, <<"1">>, <<"x">>, <<"y">>, <<"\n">>)}

-----------------------------------------------------------------------------
(* The operations as actions                                               *)

NoOptions ==
    [include_official_abbr |-> FALSE, include_canonical |-> FALSE,
     include_enriched |-> FALSE, enriched_max_per_term |-> 0]

CanonIdle == raw_term = <<>> /\ canon1 = <<>> /\ canon2 = <<>>
ParseIdle == cur_line = <<>> /\ cur_row = NoRow
EnrichIdle == /\ cur_term = <<>> /\ cur_cap = 0 /\ cur_rules = <<>>
              /\ cur_variants = <<>>
StatsIdle == /\ with_stats = FALSE /\ enrichment_stats = EnrichmentStats
             /\ stats_before = EnrichmentStats /\ enrich_calls = <<>>
EmitIdle == options = NoOptions /\ emitted = <<>> /\ rows_read = 0

canonVars == <<raw_term, canon1, canon2>>
parseVars == <<cur_line, cur_row>>
enrichVars == <<cur_term, cur_cap, cur_rules, cur_variants>>
statsVars == <<with_stats, enrichment_stats, stats_before, enrich_calls>>
emitVars == <<options, emitted, rows_read>>

\* ---- canonicalize, applied once and then to its own result
InitCanon ==
    /\ pc = "start"
    /\ raw_term \in CanonInputs /\ canon1 = <<>> /\ canon2 = <<>>
    /\ ParseIdle /\ EnrichIdle /\ StatsIdle /\ EmitIdle

Canonicalize ==
    /\ pc = "start"
    /\ canon1' = canonicalize(raw_term)
    /\ pc' = "canon"
    /\ UNCHANGED <<raw_term, canon2, parseVars, enrichVars, statsVars, emitVars>>

Recanonicalize ==
    /\ pc = "canon"
    /\ canon2' = canonicalize(canon1)
    /\ pc' = "recanon"
    /\ UNCHANGED <<raw_term, canon1, parseVars, enrichVars, statsVars, emitVars>>

NextCanon == Canonicalize \/ Recanonicalize
SpecCanon == InitCanon /\ [][NextCanon]_vars

\* ---- parse_line on one line
InitParse ==
    /\ pc = "start"
    /\ cur_line \in ParseInputs /\ cur_row = NoRow
    /\ CanonIdle /\ EnrichIdle /\ StatsIdle /\ EmitIdle

ParseLine ==
    /\ pc = "start"
    /\ cur_row' = parse_line(cur_line)
    /\ pc' = "parsed"
    /\ UNCHANGED <<cur_line, canonVars, enrichVars, statsVars, emitVars>>

NextParse == ParseLine
SpecParse == InitParse /\ [][NextParse]_vars

\* ---- enrich on one term, with or without an accumulator
InitEnrich ==
    /\ pc = "start"
    /\ cur_term \in EnrichTerms
    /\ cur_cap \in 0..MaxCap
    /\ cur_rules \in RuleTables
    /\ cur_variants = <<>>
    /\ \/ with_stats = FALSE /\ enrichment_stats = EnrichmentStats
       \/ with_stats = TRUE /\ enrichment_stats \in {EnrichmentStats, UsedStats}
    /\ stats_before = enrichment_stats
    /\ enrich_calls = <<>>
    /\ CanonIdle /\ ParseIdle /\ EmitIdle

Enrich ==
    /\ pc = "start"
    /\ LET loc == EnrichRun(cur_term, cur_cap, cur_rules)
       IN  /\ cur_variants' = loc.variants
           /\ enrich_calls' = enrich_calls \o <<EnrichCall(cur_term, loc.variants)>>
           /\ enrichment_stats' = IF with_stats THEN StatsAfter(enrichment_stats, loc)
                                  ELSE enrichment_stats
    /\ stats_before' = enrichment_stats
    /\ pc' = "enriched"
    /\ UNCHANGED <<cur_term, cur_cap, cur_rules, with_stats, canonVars, parseVars,
                   emitVars>>

NextEnrich == Enrich
SpecEnrich == InitEnrich /\ [][NextEnrich]_vars

\* ---- emit_rows on one row
InitEmit ==
    /\ pc = "start"
    /\ \E s \in EmitDescs, l \in EmitDescs : cur_row = IcdRow(1, <<"A","0","0",".","0">>, 1, s, l)
    /\ cur_line = <<>>
    /\ options \in OptionSets
    /\ emitted = <<>> /\ rows_read = 0
    /\ \/ with_stats = FALSE /\ enrichment_stats = EnrichmentStats
       \/ with_stats = TRUE /\ enrichment_stats \in {EnrichmentStats, UsedStats}
    /\ stats_before = enrichment_stats
    /\ enrich_calls = <<>>
    /\ CanonIdle /\ EnrichIdle

EmitRows ==
    /\ pc = "start"
    /\ emitted' = emit_rows(cur_row, options)
    /\ enrichment_stats' = IF with_stats
                           THEN emit_rows_stats(enrichment_stats, cur_row, options)
                           ELSE enrichment_stats
    /\ stats_before' = enrichment_stats
    /\ enrich_calls' = enrich_calls \o EnrichCalls(cur_row, options)
    /\ pc' = "emitted"
    /\ UNCHANGED <<cur_row, cur_line, options, rows_read, with_stats, canonVars,
                   enrichVars>>

NextEmit == EmitRows
SpecEmit == InitEmit /\ [][NextEmit]_vars

\* ---- main: the loop over the lines of the input file
\* options holds the parsed arguments; the accumulator exists unless
\* --no-enriched was given.
MainOptions(args) ==
    [include_official_abbr |-> args.include_official_abbr,
     include_canonical |-> ~args.no_canonical,
     include_enriched |-> ~args.no_enriched,
     enriched_max_per_term |-> args.enriched_max_per_term]

Init ==
    /\ pc = "loop"
    /\ options \in ArgSets
    /\ with_stats = ~options.no_enriched
    /\ enrichment_stats = EnrichmentStats /\ stats_before = EnrichmentStats
    /\ enrich_calls = <<>>
    /\ cur_line = <<>> /\ cur_row = NoRow
    /\ emitted = <<>> /\ rows_read = 0
    /\ CanonIdle /\ EnrichIdle

\* iter_rows: the next line is read and parsed; a blank or unparseable line
\* is skipped, an exception of parse_line ends the run.
ReadLine ==
    /\ pc = "loop"
    /\ rows_read < MaxRows
    /\ \E ln \in FileLines :
         /\ cur_line' = ln
         /\ cur_row' = parse_line(ln)
    /\ rows_read' = rows_read + 1
    /\ pc' = CASE cur_row'.kind = "row" -> "parsed"
               [] cur_row'.kind = "none" -> "loop"
               [] cur_row'.kind = "raise" -> "crashed"
    /\ UNCHANGED <<options, emitted, statsVars, canonVars, enrichVars>>

\* The body of the loop of main for a parsed row.
ProcessRow ==
    /\ pc = "parsed"
    /\ IF options.leaf_only /\ cur_row.flag # 1
       THEN UNCHANGED <<emitted, enrichment_stats, enrich_calls>>
       ELSE /\ emitted' = emit_rows(cur_row, MainOptions(options))
            /\ enrich_calls' = enrich_calls
                                 \o EnrichCalls(cur_row, MainOptions(options))
            /\ enrichment_stats' =
                 IF with_stats
                 THEN emit_rows_stats(enrichment_stats, cur_row, MainOptions(options))
                 ELSE enrichment_stats
    /\ stats_before' = enrichment_stats
    /\ pc' = "loop"
    /\ UNCHANGED <<options, with_stats, cur_line, cur_row, rows_read, canonVars,
                   enrichVars>>

Next == ReadLine \/ ProcessRow
Spec == Init /\ [][Next]_vars

-----------------------------------------------------------------------------
(* Properties                                                              *)

InSeq(x, seq) == \E k \in 1..Len(seq) : seq[k] = x

\* The number of entries of a list of (variant, rule_id) tagged r.
Tagged(vs, r) == Cardinality({k \in 1..Len(vs) : vs[k][2] = r})

\* C1: canonicalize is idempotent: canonicalizing the result of
\* canonicalize gives that result again, for every input string.
C1_CanonicalizeIdempotent ==
    pc = "recanon" => canon2 = canon1

\* C2: parse_line is total: on every line it returns a row or None and
\* raises nothing, and it returns None on a blank line.
C2_ParseLineTotal ==
    pc = "parsed" =>
        /\ cur_row.kind \in {"row", "none"}
        /\ (Strip(cur_line) = <<>> => cur_row.kind = "none")

\* C3: enrich returns at most max_variants entries, over all the rules of
\* the table together.
C3_CapInvariant ==
    pc = "enriched" => Len(cur_variants) <= cur_cap

\* The cap is reached with variants of two rule ids, and it has dropped a
\* candidate that a larger cap accepts.
C3_Witness ==
    /\ pc = "enriched"
    /\ cur_cap >= 2
    /\ Len(cur_variants) = cur_cap
    /\ cur_variants[1][2] # cur_variants[cur_cap][2]
    /\ Len(enrich(cur_term, cur_cap + 1, cur_rules)) > cur_cap

\* C4: no variant returned by enrich equals the input term, whether the
\* term is canonical or not and even when a rule yields the term itself.
C4_NoSelfReproduction ==
    pc = "enriched" => \A k \in 1..Len(cur_variants) : cur_variants[k][1] # cur_term

\* A rule of the table yields the input term as a candidate while the cap
\* is not yet reached, and other candidates are accepted.
C4_Witness ==
    /\ pc = "enriched"
    /\ cur_cap > 0
    /\ InSeq(Lower(cur_term), _rule_parentheses_split(cur_term))
    /\ Lower(cur_term) = cur_term
    /\ cur_rules[1].fn = "_rule_parentheses_split"
    /\ Len(cur_variants) > 0

\* The index in the list `output` of the first entry whose trimmed term is t.
FirstIndex(output, t) ==
    SetMin({i \in 1..Len(output) : Strip(output[i][1]) = t})

\* C5: the list emit_rows returns holds no empty term and no term twice;
\* every non-empty trimmed term of the list before the de-dup pass is
\* kept once, with the label of its first entry there, and the kept
\* entries are in the order of their first occurrences.
C5_RowLocalDedup ==
    pc = "emitted" =>
      LET pre == EmitOutput(cur_row, options)
      IN  /\ \A j \in 1..Len(emitted) : emitted[j][1] # <<>>
          /\ \A i, j \in 1..Len(emitted) : i # j => emitted[i][1] # emitted[j][1]
          /\ \A i \in 1..Len(pre) :
               Strip(pre[i][1]) # <<>> =>
                 \E j \in 1..Len(emitted) : emitted[j][1] = Strip(pre[i][1])
          /\ \A j \in 1..Len(emitted) :
               /\ \E i \in 1..Len(pre) : Strip(pre[i][1]) = emitted[j][1]
               /\ emitted[j][2] = pre[FirstIndex(pre, emitted[j][1])][2]
          /\ \A i, j \in 1..Len(emitted) :
               i < j => FirstIndex(pre, emitted[i][1]) < FirstIndex(pre, emitted[j][1])

\* The list before the de-dup pass holds one term under two labels, and
\* an enriched entry is kept.
C5_Witness ==
    /\ pc = "emitted"
    /\ LET pre == EmitOutput(cur_row, options)
       IN  \E i, j \in 1..Len(pre) :
             /\ i < j
             /\ Strip(pre[i][1]) # <<>>
             /\ Strip(pre[i][1]) = Strip(pre[j][1])
             /\ pre[i][2] # pre[j][2]
    /\ \E j \in 1..Len(emitted) : emitted[j][2][1] = "enriched:"

\* C6: the code field of every row that parse_line returns is non-empty.
C6_CodeNonEmpty ==
    (pc = "parsed" /\ cur_row.kind = "row") => cur_row.code # <<>>

\* C7: a row that parse_line returns with a non-empty short_desc has a
\* non-empty long_desc: an empty long description falls back to short_desc.
C7_LongDescFallback ==
    (pc = "parsed" /\ cur_row.kind = "row" /\ cur_row.short_desc # <<>>)
        => cur_row.long_desc # <<>>

\* C8: with the configured rule table, enrich on "acute bronchitis" returns
\* ("acu bronchitis", B3) and enrich on "acu bronchitis" returns
\* ("acute bronchitis", B3).
C8_BidirectionalSwap ==
    (pc = "enriched" /\ cur_rules = ENRICHMENT_RULES /\ cur_cap >= 1) =>
        /\ cur_term = <<"a","c","u","t","e"," ","b","r","o","n","c","h","i","t","i","s">>
             => InSeq(<<<<"a","c","u"," ","b","r","o","n","c","h","i","t","i","s">>, "B3">>, cur_variants)
        /\ cur_term = <<"a","c","u"," ","b","r","o","n","c","h","i","t","i","s">>
             => InSeq(<<<<"a","c","u","t","e"," ","b","r","o","n","c","h","i","t","i","s">>, "B3">>, cur_variants)

\* main has processed the scenario line with abbreviations, canonical forms
\* and enrichment enabled and a cap that admits both variants of the term.
ScenarioProcessed ==
    /\ pc = "loop"
    /\ cur_line = ScenarioLine
    /\ options.include_official_abbr
    /\ ~options.no_canonical
    /\ ~options.no_enriched
    /\ options.enriched_max_per_term >= 2

\* C9: the scenario line, parsed and emitted with abbreviations, canonical
\* forms and enrichment enabled (the cap at its default, or any cap of at
\* least 2), yields the canonical official term and its two C1 variants.
C9_CholeraScenario ==
    ScenarioProcessed =>
        /\ InSeq(<<<<"c","h","o","l","e","r","a"," ","d","u","e"," ","t","o"," ","v","i","b","r","i","o"," ","c","h","o","l","e","r","a","e">>, <<"canonical:", "official">>>>,
                 emitted)
        /\ InSeq(<<<<"c","h","o","l","e","r","a"," ","b","e","c","a","u","s","e"," ","o","f"," ","v","i","b","r","i","o"," ","c","h","o","l","e","r","a","e">>, <<"enriched:", "C1">>>>,
                 emitted)
        /\ InSeq(<<<<"c","h","o","l","e","r","a"," ","c","a","u","s","e","d"," ","b","y"," ","v","i","b","r","i","o"," ","c","h","o","l","e","r","a","e">>, <<"enriched:", "C1">>>>,
                 emitted)

C9_Witness ==
    /\ ScenarioProcessed
    /\ options.enriched_max_per_term = DEFAULT_ENRICHED_MAX_PER_TERM
    /\ cur_row.kind = "row"
    /\ cur_row.long_desc = <<"C","h","o","l","e","r","a"," ","d","u","e"," ","t","o"," ","V","i","b","r","i","o"," ","c","h","o","l","e","r","a","e">>
    /\ Len(emitted) > 4

\* C10: one enrich call with an accumulator adds 1 to terms_seen, adds 1 to
\* affected_terms[r] for each rule id r tagging an entry of the result and
\* 0 for every other id, and adds to variants_added[r] the number of
\* entries tagged r.
C10_PerCallStats ==
    (pc = "enriched" /\ with_stats) =>
        /\ enrichment_stats.terms_seen = stats_before.terms_seen + 1
        /\ \A r \in RULE_IDS :
             /\ enrichment_stats.affected_terms[r] =
                  stats_before.affected_terms[r]
                    + (IF Tagged(cur_variants, r) > 0 THEN 1 ELSE 0)
             /\ enrichment_stats.variants_added[r] =
                  stats_before.variants_added[r] + Tagged(cur_variants, r)

\* Two entries of the table share the id C1 and both have accepted
\* variants in one call (the first entry yields at most two), on an
\* accumulator that already holds counts.
C10_Witness ==
    /\ pc = "enriched" /\ with_stats
    /\ stats_before = UsedStats
    /\ cur_rules = SHARED_ID_RULES
    /\ Len(_rule_due_to_variants(cur_term)) > 0
    /\ Tagged(cur_variants, "C1") >= 3
    /\ enrichment_stats.affected_terms["C1"] = stats_before.affected_terms["C1"] + 1

\* The enrich calls so far in which rule id r tagged a returned variant.
CallsFiring(r) == {k \in 1..Len(enrich_calls) : r \in enrich_calls[k].tags}

\* The distinct terms on which rule id r fired in some enrich call so far.
TermsFiring(r) == {enrich_calls[k].term : k \in CallsFiring(r)}

\* C11 as stated: over a run that shares one accumulator,
\* affected_terms[r] is the number of distinct terms on which rule id r
\* fired at least once, also when a term is offered more than once.
C11_DistinctTerms ==
    \A r \in RULE_IDS :
        enrichment_stats.affected_terms[r] = Cardinality(TermsFiring(r))

\* C11, amended: over a run that shares one accumulator,
\* affected_terms[r] is the number of enrich calls in which rule id r had
\* an accepted variant; a term offered in several calls counts once for
\* each of them.
C11_PerCallCount ==
    /\ enrichment_stats.terms_seen = Len(enrich_calls)
    /\ \A r \in RULE_IDS :
         enrichment_stats.affected_terms[r] = Cardinality(CallsFiring(r))

\* One canonical term reaches enrich twice within a row (as the canonical
\* form of long_desc and of short_desc) and again in a later row, and a
\* rule fires on it every time.
C11_Witness ==
    /\ pc = "loop" /\ with_stats
    /\ Len(enrich_calls) > 2
    /\ \E r \in RULE_IDS :
         /\ Cardinality(CallsFiring(r)) > 2
         /\ Cardinality(TermsFiring(r)) = 1
         /\ enrichment_stats.affected_terms[r] = Cardinality(CallsFiring(r))

\* C12: when emit_rows is called with include_canonical false and
\* include_enriched true, enrich is never called for the row: the result
\* holds no entry whose label starts with "enriched:" and the accumulator
\* (terms_seen, affected_terms, variants_added) is as it was before.
C12_EnrichNeedsCanonical ==
    (pc = "emitted" /\ ~options.include_canonical /\ options.include_enriched) =>
        /\ enrich_calls = <<>>
        /\ \A k \in 1..Len(emitted) : emitted[k][2][1] # "enriched:"
        /\ enrichment_stats = stats_before

\* emit_rows has run with enrichment on and canonical generation off, with
\* an accumulator that already holds counts, on a row whose long_desc would
\* have variants under the same cap had its canonical form been generated.
C12_Witness ==
    /\ pc = "emitted" /\ with_stats
    /\ ~options.include_canonical /\ options.include_enriched
    /\ stats_before = UsedStats
    /\ Len(emitted) > 0
    /\ Len(enrich(canonicalize(cur_row.long_desc), options.enriched_max_per_term,
                  ENRICHMENT_RULES)) > 0

=============================================================================
